---- MODULE Spec2Model ----
(***************************************************************************)
(* Model of the payment-initiation and callback-reconciliation relay of     *)
(* src/server/index.js: the /stkPush and /callback handlers and the        *)
(* Firestore collections (transactions, users, notifications) they touch.  *)
(* Each handler is split at its awaits, so that handlers interleave        *)
(* exactly where the Node.js event loop lets them.  The requests in flight *)
(* are kept as bags of continuations: a handler has no identity beyond its *)
(* locals, and it leaves the bag when it has sent its response.            *)
(***************************************************************************)
EXTENDS Integers, Sequences, FiniteSets, Bags, TLC

\* ---- bounds ------------------------------------------------------------
NumPush == 2          \* /stkPush requests handled in one run
NumCb == 2            \* /callback deliveries handled in one run
NumComplete == 2      \* completeTransaction calls of the browser client

\* ---- values ------------------------------------------------------------
Undefined == "undefined"                 \* a JavaScript undefined / absent field
TxnIds == {"ws_CO_1", "ws_CO_2"}         \* CheckoutRequestIDs the provider issues
UserIds == {"u1", "u2"}                  \* user ids a request can carry
RegisteredUsers == {"u1"}                \* ids that have a document in users
AmountScale == 10                        \* request amounts are counted in tenths
Amounts == {1009}                        \* 100.9
Phones == {<<"0", "7", "1">>}            \* shortened 07... number
ResultCodes == {0, 1032}                 \* 0 = success, 1032 = cancelled by user
ResultDescs == {"Request cancelled by user"}
Receipts == {"NLJ7RT61SV"}
AccountReferences == {"Test"}            \* accountReference of a request
InitBalance == 0
RenderUrl == "https://pesaflow-api.onrender.com"   \* a configured base URL

\* ---- pure helpers ------------------------------------------------------
\* Math.floor on an amount given in tenths
MathFloor(a) == a \div AmountScale

\* String.prototype.replace(ch, ''): drops the first occurrence of ch only
RECURSIVE ReplaceFirst(_, _)
ReplaceFirst(s, ch) ==
    IF s = <<>> THEN <<>>
    ELSE IF Head(s) = ch THEN Tail(s)
    ELSE <<Head(s)>> \o ReplaceFirst(Tail(s), ch)

\* String.prototype.replace(/^0/, '254')
ReplaceLeadingZero(s) ==
    IF s # <<>> /\ Head(s) = "0" THEN <<"2", "5", "4">> \o Tail(s) ELSE s

\* FormatPhone without .replace(/^0/, '254')
FormatPhoneKeepZero(p) == ReplaceFirst(p, "+")

\* formattedPhone = phoneNumber.replace('+', '').replace(/^0/, '254')
FormatPhone(p) == ReplaceLeadingZero(ReplaceFirst(p, "+"))

\* accountReference || "PesaFlow"
RefOrDefault(r) == IF r = Undefined THEN "PesaFlow" ELSE r

\* ---- documents ---------------------------------------------------------
NoTxn == [exists |-> FALSE, userId |-> Undefined, amount |-> 0,
          type |-> Undefined, status |-> Undefined, description |-> Undefined,
          phoneNumber |-> <<>>, reference |-> Undefined]

\* the document written by /stkPush
PendingTxn(userId, amount, phone, accountReference) ==
    [exists |-> TRUE, userId |-> userId, amount |-> MathFloor(amount),
     type |-> "DEPOSIT", status |-> "PENDING", description |-> "M-Pesa Topup",
     phoneNumber |-> phone, reference |-> RefOrDefault(accountReference)]

\* the notification inserted by the success path of /callback
PaymentNotif(userId, amount) ==
    [userId |-> userId, title |-> "Payment Received", amount |-> amount,
     read |-> FALSE, type |-> "success"]

\* description written by the failure path: `Failed: ${body.ResultDesc}`
FailedDesc(resultDesc) == <<"Failed: ", resultDesc>>

\* DocExists taking every document for an existing one
DocExistsAlways(doc) == TRUE

\* txnDoc.exists
DocExists(doc) == doc.exists

\* ---- request bodies ----------------------------------------------------
\* hasPhone: whether phoneNumber is present; without it nothing else is read
StkPushBodies ==
    {b \in [hasPhone : BOOLEAN, phoneNumber : Phones, amount : Amounts,
            accountReference : AccountReferences,
            userId : UserIds \cup {Undefined}] :
        ~b.hasPhone => b.userId = Undefined}

\* shape: which envelope the body has; meta: what CallbackMetadata carries.
\* The provider sends CallbackMetadata with successful results only, and the
\* fields of a body without envelope are never read.
CallbackBodies ==
    {b \in [shape : {"Body", "bare", "none"}, CheckoutRequestID : TxnIds,
            ResultCode : ResultCodes, ResultDesc : ResultDescs,
            meta : {"absent", "noReceipt", "receipt"}, receipt : Receipts] :
        /\ b.ResultCode # 0 => b.meta = "absent"
        /\ b.shape = "none" =>
              b.meta = "absent" /\ b.ResultCode = 0
                                /\ b.CheckoutRequestID = "ws_CO_1"}

\* HasStkCallback without the `if (!body)` test of line 129
HasStkCallbackUntested(body) == TRUE

\* req.body.Body ? req.body.Body.stkCallback : req.body.stkCallback
HasStkCallback(body) == body.shape \in {"Body", "bare"}

\* ---- responses ---------------------------------------------------------
\* cid: the CheckoutRequestID of an acceptance payload relayed by /stkPush
NoResp == [status |-> 0, result |-> "none", cid |-> Undefined]
Json(result) == [status |-> 200, result |-> result, cid |-> Undefined]
Status(code, result) == [status |-> code, result |-> result, cid |-> Undefined]
Accepted(cid) == [status |-> 200, result |-> "accepted", cid |-> cid]

\* the error payloads of /stkPush (line 120): error.response.data of a
\* rejected push, else error.message
TypeErrorMessage == "Cannot read properties of undefined (reading 'replace')"
AuthErrorMessage ==
    "Failed to authenticate with Safaricom. Check Consumer Key/Secret."
ProviderError == "error.response.data"

\* the error payloads of /callback (line 182): error.message of the TypeError
\* of line 152 and of a transaction or update on a missing document
MetadataErrorMessage == "Cannot read properties of undefined (reading 'Item')"
NotFoundMessage == "5 NOT_FOUND: No document to update"

\* ---- configuration -----------------------------------------------------
VARIABLE
    appUrlEnv   \* process.env.RENDER_EXTERNAL_URL || process.env.APP_URL

\* const APP_URL = ... || "http://localhost:5000" (line 49)
APP_URL == IF appUrlEnv = Undefined THEN "http://localhost:5000" ELSE appUrlEnv

\* callbackUrl = `${APP_URL}/callback` (line 77)
CallbackUrl == <<APP_URL, "/callback">>

\* ---- requests to the provider -------------------------------------------
NoCall == [api |-> "none", token |-> Undefined, Amount |-> 0, PartyA |-> <<>>,
           CallBackURL |-> <<>>]

\* axios.get(".../oauth/v1/generate?grant_type=client_credentials")
TokenCall == [NoCall EXCEPT !.api = "oauth"]

\* axios.post(".../mpesa/stkpush/v1/processrequest", data, Bearer token)
PushCall(token, amount, phone) ==
    [api |-> "stkpush", token |-> token, Amount |-> MathFloor(amount),
     PartyA |-> phone, CallBackURL |-> CallbackUrl]

\* ---- state -------------------------------------------------------------
VARIABLES
    txns,       \* collection transactions: TxnIds -> document
    users,      \* collection users: UserIds -> [exists, balance]
    notifs,     \* collection notifications, in insertion order
    pushes,     \* bag of /stkPush handlers waiting at an await
    cbs,        \* bag of /callback handlers waiting at an await
    out,        \* the response sent by the last step, NoResp if it sent none
    upstream,   \* the request the last step sent to the provider, or NoCall
    received,   \* requests received so far: [push, cb]
    credits     \* history: balance increments committed for the record now
                \* stored under each transaction id

\* ---- the browser client (services/mockMpesa.ts, mockFirebase.ts) --------
VARIABLES
    localStorage,   \* the four STORAGE_KEYS: USER, USERS_DB, TXNS, NOTIFS
    adds,           \* bag of dbService.addTransaction calls waiting in delay(500)
    completes       \* calls of completeTransaction made so far

client == <<localStorage, adds, completes>>

DefaultUid == "user_default_01"
DefaultEmail == "demo@pesaflow.com"
DefaultBalance == 24500
NewUid == "user_${Date.now()}"
NewEmail == "new@pesaflow.com"
ClientUids == {DefaultUid, NewUid}
Emails == {DefaultEmail, NewEmail}

\* the row users.find(...) looks for: one uid per e-mail address
UidOf(email) == IF email = DefaultEmail THEN DefaultUid ELSE NewUid

\* localStorage.getItem(STORAGE_KEYS.USER) is null
NoSession == [signedIn |-> FALSE, uid |-> Undefined, balance |-> 0]

\* the transactions handed to completeTransaction and the amounts passed
ClientTxns ==
    [type : {"DEPOSIT", "WITHDRAWAL"}, status : {"COMPLETED", "FAILED"},
     amount : {100}]
PassedAmounts == {100, 250}

\* the notification pushed by the automatic sign-up of signIn
WelcomeNotif(uid) ==
    [userId |-> uid, title |-> "Welcome to PesaFlow!", type |-> "success"]

\* the notification addTransaction puts in front of the list
TxnNotif(uid) ==
    [userId |-> uid, title |-> "Transaction Successful", type |-> "info"]

\* initializeStorage: no transactions, the demo user in the users table;
\* nobody is signed in
InitClient ==
    /\ localStorage =
         [USER |-> NoSession,
          USERS_DB |-> [u \in ClientUids |->
                          [exists |-> u = DefaultUid,
                           balance |-> IF u = DefaultUid THEN DefaultBalance
                                                         ELSE 0]],
          TXNS |-> <<>>,
          NOTIFS |-> <<>>]
    /\ adds = EmptyBag
    /\ completes = 0

server == <<txns, users, notifs, pushes, cbs, out, upstream, received, credits,
           appUrlEnv>>
vars == <<server, client>>
store == <<txns, users, notifs>>

\* empty collections but for the registered users, no request in flight
InitStore ==
    /\ txns = [i \in TxnIds |-> NoTxn]
    /\ users = [u \in UserIds |->
                  [exists |-> u \in RegisteredUsers, balance |-> InitBalance]]
    /\ notifs = <<>>
    /\ pushes = EmptyBag
    /\ cbs = EmptyBag
    /\ out = NoResp
    /\ upstream = NoCall
    /\ received = [push |-> 0, cb |-> 0]
    /\ credits = [i \in TxnIds |-> 0]
    /\ InitClient

\* the service starts with empty collections but for the registered users;
\* the deployment of this specification has its base URL configured
Init ==
    /\ appUrlEnv = RenderUrl
    /\ InitStore

One(r) == SetToBag({r})

\* ---- /stkPush ----------------------------------------------------------
\* lines 67-71: destructure the body, format the phone, ask for a token
StkPushReceive(body) ==
    /\ received.push < NumPush
    /\ received' = [received EXCEPT !.push = @ + 1]
    /\ IF ~body.hasPhone
         THEN \* phoneNumber.replace on undefined throws; caught at line 118
              /\ out' = Status(500, TypeErrorMessage)
              /\ upstream' = NoCall
              /\ UNCHANGED pushes
         ELSE /\ pushes' = pushes (+) One(
                   [pc |-> "token",
                    formattedPhone |-> FormatPhone(body.phoneNumber),
                    amount |-> body.amount,
                    accountReference |-> body.accountReference,
                    userId |-> body.userId,
                    cid |-> Undefined])
              /\ out' = NoResp
              /\ upstream' = TokenCall
    /\ UNCHANGED <<store, cbs, credits, appUrlEnv, client>>

\* GetAccessToken whose catch block returns instead of throwing (line 62)
GetAccessTokenSwallowed(r, outcome) ==
    /\ BagIn(r, pushes) /\ r.pc = "token"
    /\ pushes' = (pushes (-) One(r)) (+) One([r EXCEPT !.pc = "push"])
    /\ out' = NoResp
    /\ upstream' = PushCall(IF outcome = "token" THEN "tok" ELSE Undefined,
                            r.amount, r.formattedPhone)
    /\ UNCHANGED <<store, cbs, received, credits, appUrlEnv, client>>

\* getAccessToken settles (lines 52-64); on success the push is sent (lines 73-99)
GetAccessToken(r, outcome) ==
    /\ BagIn(r, pushes) /\ r.pc = "token"
    /\ IF outcome = "httpError"
         THEN /\ pushes' = pushes (-) One(r)
              /\ out' = Status(500, AuthErrorMessage)
              /\ upstream' = NoCall
         ELSE \* token = response.data.access_token, absent or not
              /\ pushes' = (pushes (-) One(r)) (+) One([r EXCEPT !.pc = "push"])
              /\ out' = NoResp
              /\ upstream' = PushCall(IF outcome = "token" THEN "tok" ELSE Undefined,
                                      r.amount, r.formattedPhone)
    /\ UNCHANGED <<store, cbs, received, credits, appUrlEnv, client>>

\* the provider answers the push (lines 95-103, 117-121)
StkPushAnswer(r, accepted, cid) ==
    /\ BagIn(r, pushes) /\ r.pc = "push"
    /\ IF ~accepted
         THEN /\ pushes' = pushes (-) One(r)
              /\ out' = Status(500, ProviderError)
         ELSE IF r.userId # Undefined
           THEN /\ pushes' = (pushes (-) One(r)) (+) One(
                     [r EXCEPT !.pc = "set", !.cid = cid])
                /\ out' = NoResp
           ELSE /\ pushes' = pushes (-) One(r)
                /\ out' = Accepted(cid)
    /\ upstream' = NoCall
    /\ UNCHANGED <<store, cbs, received, credits, appUrlEnv, client>>

\* StkPushSet that also adds the amount to the owner's balance
StkPushSetCredits(r) ==
    /\ BagIn(r, pushes) /\ r.pc = "set"
    /\ txns' = [txns EXCEPT ![r.cid] =
                  PendingTxn(r.userId, r.amount, r.formattedPhone,
                             r.accountReference)]
    /\ users' = [users EXCEPT ![r.userId].balance = @ + MathFloor(r.amount)]
    /\ pushes' = pushes (-) One(r)
    /\ out' = Accepted(r.cid)
    /\ credits' = [credits EXCEPT ![r.cid] = 0]
    /\ upstream' = NoCall
    /\ UNCHANGED <<notifs, cbs, received, appUrlEnv, client>>

\* doc(checkoutRequestId).set({...}) lands, then res.json (lines 104-117)
StkPushSet(r) ==
    /\ BagIn(r, pushes) /\ r.pc = "set"
    /\ txns' = [txns EXCEPT ![r.cid] =
                  PendingTxn(r.userId, r.amount, r.formattedPhone,
                             r.accountReference)]
    /\ pushes' = pushes (-) One(r)
    /\ out' = Accepted(r.cid)
    /\ credits' = [credits EXCEPT ![r.cid] = 0]
    /\ upstream' = NoCall
    /\ UNCHANGED <<users, notifs, cbs, received, appUrlEnv, client>>

\* ---- /callback ---------------------------------------------------------
\* receipt = receiptItem ? receiptItem.Value : "REF"
ReceiptOf(body) == IF body.meta = "receipt" THEN body.receipt ELSE "REF"

\* Branch without the txnDoc.exists test of line 142
BranchNoExistsTest(body, doc) ==
    IF ~HasStkCallback(body) THEN "invalid"
    ELSE IF body.ResultCode = 0
      THEN IF body.meta = "absent" THEN "throw" ELSE "apply"
      ELSE "update"

\* the branch /callback takes once the read of the transaction has resolved
\* (lines 128-129, 142-145, 150-154, 171)
Branch(body, doc) ==
    IF ~HasStkCallback(body) THEN "invalid"
    ELSE IF ~DocExists(doc) THEN "ignored"
    ELSE IF body.ResultCode = 0
      THEN IF body.meta = "absent" THEN "throw" ELSE "apply"
      ELSE "update"

\* lines 125-155, 171-173: parse, read the transaction, pick the branch
CallbackGet(body) ==
    /\ received.cb < NumCb
    /\ received' = [received EXCEPT !.cb = @ + 1]
    /\ LET id == body.CheckoutRequestID
           doc == txns[id]
           branch == Branch(body, doc) IN
       CASE branch = "invalid" ->
              out' = Status(400, "Invalid Body") /\ UNCHANGED cbs
         [] branch = "ignored" ->
              out' = Json("ignored") /\ UNCHANGED cbs
         [] branch = "throw" ->
              \* body.CallbackMetadata.Item throws; caught at line 180
              out' = Status(500, MetadataErrorMessage) /\ UNCHANGED cbs
         [] branch = "apply" ->
              /\ cbs' = cbs (+) One(
                   [pc |-> "apply", id |-> id, snap |-> doc,
                    receipt |-> ReceiptOf(body), desc |-> Undefined])
              /\ out' = NoResp
         [] branch = "update" ->
              /\ cbs' = cbs (+) One(
                   [pc |-> "update", id |-> id, snap |-> doc,
                    receipt |-> Undefined, desc |-> body.ResultDesc])
              /\ out' = NoResp
    /\ upstream' = NoCall
    /\ UNCHANGED <<store, pushes, credits, appUrlEnv, client>>

\* CallbackApply writing balance: amount in place of increment(amount)
CallbackApplySetBalance(r) ==
    /\ BagIn(r, cbs) /\ r.pc = "apply"
    /\ cbs' = cbs (-) One(r)
    /\ LET userId == r.snap.userId
           amount == r.snap.amount IN
       IF DocExists(txns[r.id]) /\ DocExists(users[userId])
         THEN /\ txns' = [txns EXCEPT ![r.id].status = "COMPLETED",
                                      ![r.id].reference = r.receipt]
              /\ users' = [users EXCEPT ![userId].balance = amount]
              /\ notifs' = Append(notifs, PaymentNotif(userId, amount))
              /\ credits' = [credits EXCEPT ![r.id] = @ + 1]
              /\ out' = Json("ok")
         ELSE \* t.update of a missing document fails the whole transaction
              /\ out' = Status(500, NotFoundMessage)
              /\ UNCHANGED <<store, credits>>
    /\ upstream' = NoCall
    /\ UNCHANGED <<pushes, received, appUrlEnv, client>>

\* db.runTransaction commits its three writes or none (lines 156-170, 179-183)
CallbackApply(r) ==
    /\ BagIn(r, cbs) /\ r.pc = "apply"
    /\ cbs' = cbs (-) One(r)
    /\ LET userId == r.snap.userId
           amount == r.snap.amount IN
       IF DocExists(txns[r.id]) /\ DocExists(users[userId])
         THEN /\ txns' = [txns EXCEPT ![r.id].status = "COMPLETED",
                                      ![r.id].reference = r.receipt]
              /\ users' = [users EXCEPT ![userId].balance = @ + amount]
              /\ notifs' = Append(notifs, PaymentNotif(userId, amount))
              /\ credits' = [credits EXCEPT ![r.id] = @ + 1]
              /\ out' = Json("ok")
         ELSE \* t.update of a missing document fails the whole transaction
              /\ out' = Status(500, NotFoundMessage)
              /\ UNCHANGED <<store, credits>>
    /\ upstream' = NoCall
    /\ UNCHANGED <<pushes, received, appUrlEnv, client>>

\* CallbackUpdate with the success path's balance increment copied into it
CallbackUpdateCredits(r) ==
    /\ BagIn(r, cbs) /\ r.pc = "update"
    /\ cbs' = cbs (-) One(r)
    /\ IF DocExists(txns[r.id]) /\ DocExists(users[r.snap.userId])
         THEN /\ txns' = [txns EXCEPT ![r.id].status = "FAILED",
                                      ![r.id].description = FailedDesc(r.desc)]
              /\ users' = [users EXCEPT
                             ![r.snap.userId].balance = @ + r.snap.amount]
              /\ out' = Json("ok")
         ELSE /\ out' = Status(500, NotFoundMessage)
              /\ UNCHANGED <<txns, users>>
    /\ upstream' = NoCall
    /\ UNCHANGED <<notifs, pushes, received, credits, appUrlEnv, client>>

\* txnRef.update({status: 'FAILED', ...}) lands (lines 173-183)
CallbackUpdate(r) ==
    /\ BagIn(r, cbs) /\ r.pc = "update"
    /\ cbs' = cbs (-) One(r)
    /\ IF DocExists(txns[r.id])
         THEN /\ txns' = [txns EXCEPT ![r.id].status = "FAILED",
                                      ![r.id].description = FailedDesc(r.desc)]
              /\ out' = Json("ok")
         ELSE /\ out' = Status(500, NotFoundMessage)
              /\ UNCHANGED txns
    /\ upstream' = NoCall
    /\ UNCHANGED <<users, notifs, pushes, received, credits, appUrlEnv, client>>

\* ---- specification -----------------------------------------------------
Next ==
    \/ \E body \in StkPushBodies : StkPushReceive(body)
    \/ \E r \in BagToSet(pushes), o \in {"httpError", "noToken", "token"} :
           GetAccessToken(r, o)
    \/ \E r \in BagToSet(pushes), a \in BOOLEAN, c \in TxnIds :
           StkPushAnswer(r, a, c)
    \/ \E r \in BagToSet(pushes) : StkPushSet(r)
    \/ \E body \in CallbackBodies : CallbackGet(body)
    \/ \E r \in BagToSet(cbs) : CallbackApply(r)
    \/ \E r \in BagToSet(cbs) : CallbackUpdate(r)

Spec == Init /\ [][Next]_vars

\* ---- initiation alone: phone formats, signed amounts, configuration ------
\* the eight trailing digits of a subscriber number, shortened
PhoneTails == {<<"1">>, <<"0", "0">>}

\* 2547XXXXXXXX
Msisdn(tail) == <<"2", "5", "4", "7">> \o tail

\* +2547XXXXXXXX, 07XXXXXXXX and 2547XXXXXXXX
ValidPhones ==
    UNION {{<<"+">> \o Msisdn(t), <<"0", "7">> \o t, Msisdn(t)} :
             t \in PhoneTails}

\* request amounts in tenths: -1.5, 0 and 100.9
SignedAmounts == {-15, 0, 1009}

\* the bodies of POST /stkPush that depart from the body of Spec in at most
\* one field
InitiationBodies ==
    {b \in [hasPhone : BOOLEAN, phoneNumber : Phones \cup ValidPhones,
            amount : SignedAmounts, accountReference : AccountReferences,
            userId : {"u1", Undefined}] :
        /\ ~b.hasPhone => b.userId = Undefined
        /\ (~b.hasPhone \/ b.userId = Undefined \/ b.amount \notin Amounts)
              => b.phoneNumber \in Phones
        /\ (~b.hasPhone \/ b.userId = Undefined) => b.amount \in Amounts}

\* the deployment may or may not have its base URL configured
InitInitiation ==
    /\ appUrlEnv \in {Undefined, RenderUrl}
    /\ InitStore

\* POST /stkPush requests only: the provider delivers no callback
NextInitiation ==
    \/ \E body \in InitiationBodies : StkPushReceive(body)
    \/ \E r \in BagToSet(pushes), o \in {"httpError", "noToken", "token"} :
           GetAccessToken(r, o)
    \/ \E r \in BagToSet(pushes), a \in BOOLEAN, c \in TxnIds :
           StkPushAnswer(r, a, c)
    \/ \E r \in BagToSet(pushes) : StkPushSet(r)

SpecInitiation == InitInitiation /\ [][NextInitiation]_vars

\* ---- one deposit and its callbacks ------------------------------------
\* the CheckoutRequestID the provider issues (response.data, line 102)
RaceId == "ws_CO_1"

\* the provider has accepted a push under id and a handler or a record holds it
Issued(id) ==
    \/ txns[id].exists
    \/ \E r \in BagToSet(pushes) : r.cid = id

\* the provider issues an id once and calls back only for a push it has
\* accepted, with one of the two envelopes and, on success, with its
\* metadata; the owner named by a request is a registered user
NextRace ==
    \/ \E body \in StkPushBodies :
           /\ body.userId \in RegisteredUsers \cup {Undefined}
           /\ StkPushReceive(body)
    \/ \E r \in BagToSet(pushes), o \in {"httpError", "noToken", "token"} :
           GetAccessToken(r, o)
    \/ \E r \in BagToSet(pushes), a \in BOOLEAN :
           /\ a => ~Issued(RaceId)
           /\ StkPushAnswer(r, a, RaceId)
    \/ \E r \in BagToSet(pushes) : StkPushSet(r)
    \/ \E body \in CallbackBodies :
           /\ HasStkCallback(body)
           /\ body.ResultCode = 0 => body.meta # "absent"
           /\ body.CheckoutRequestID = RaceId
           /\ Issued(RaceId)
           /\ CallbackGet(body)
    \/ \E r \in BagToSet(cbs) : CallbackApply(r)
    \/ \E r \in BagToSet(cbs) : CallbackUpdate(r)

SpecRace == Init /\ [][NextRace]_vars

\* ---- the browser client: sign-in, sign-out, completeTransaction ---------
\* authService.signIn after its delay (mockFirebase.ts lines 78-125): find the
\* user, recreate the demo user or sign a new one up, then set the session
SignIn(email) ==
    /\ LET uid == UidOf(email)
           db == localStorage.USERS_DB
           found == db[uid].exists
           user == IF found THEN db[uid]
                   ELSE [exists |-> TRUE,
                         balance |-> IF email = DefaultEmail
                                       THEN DefaultBalance ELSE 0] IN
       localStorage' =
         [localStorage EXCEPT
            !.USERS_DB = [db EXCEPT ![uid] = user],
            !.NOTIFS = IF ~found /\ email # DefaultEmail
                         THEN Append(@, WelcomeNotif(uid)) ELSE @,
            !.USER = [signedIn |-> TRUE, uid |-> uid,
                      balance |-> user.balance]]
    /\ UNCHANGED <<adds, completes, server>>

\* authService.signOut after its delay (lines 177-181)
SignOut ==
    /\ localStorage' = [localStorage EXCEPT !.USER = NoSession]
    /\ UNCHANGED <<adds, completes, server>>

\* completeTransaction that does not test txn.status
CompleteTransactionAnyStatus(txn, amount) ==
    /\ completes < NumComplete
    /\ completes' = completes + 1
    /\ LET user == localStorage.USER IN
       IF user.signedIn
         THEN adds' = adds (+) One([userId |-> user.uid,
                                    txn |-> [txn EXCEPT !.amount = amount]])
         ELSE UNCHANGED adds
    /\ UNCHANGED <<localStorage, server>>

\* mpesaService.completeTransaction up to the delay of addTransaction
\* (mockMpesa.ts lines 124-132, mockFirebase.ts lines 215-216)
CompleteTransaction(txn, amount) ==
    /\ completes < NumComplete
    /\ completes' = completes + 1
    /\ LET user == localStorage.USER IN
       IF user.signedIn /\ txn.status = "COMPLETED"
         THEN adds' = adds (+) One([userId |-> user.uid,
                                    txn |-> [txn EXCEPT !.amount = amount]])
         ELSE UNCHANGED adds
    /\ UNCHANGED <<localStorage, server>>

\* authService.updateUserBalance (lines 188-203) applied to the storage ls
UpdateUserBalance(ls, uid, newBalance) ==
    [ls EXCEPT
       !.USER = IF @.uid = uid THEN [@ EXCEPT !.balance = newBalance] ELSE @,
       !.USERS_DB = IF @[uid].exists
                      THEN [@ EXCEPT ![uid].balance = newBalance] ELSE @]

\* dbService.addTransaction after its delay (lines 217-243): store the
\* transaction, then adjust the balance of the user signed in now and notify
AddTransaction(a) ==
    /\ BagIn(a, adds)
    /\ adds' = adds (-) One(a)
    /\ LET withTxn == [localStorage EXCEPT
                         !.TXNS = <<[type |-> a.txn.type,
                                     status |-> a.txn.status,
                                     amount |-> a.txn.amount,
                                     userId |-> a.userId]>> \o @]
           currentUser == localStorage.USER
           newBalance == IF a.txn.type = "DEPOSIT"
                           THEN currentUser.balance + a.txn.amount
                           ELSE currentUser.balance - a.txn.amount IN
       IF currentUser.signedIn
         THEN localStorage' =
                [UpdateUserBalance(withTxn, currentUser.uid, newBalance) EXCEPT
                   !.NOTIFS = <<TxnNotif(currentUser.uid)>> \o @]
         ELSE localStorage' = withTxn
    /\ UNCHANGED <<completes, server>>

NextClient ==
    \/ \E email \in Emails : SignIn(email)
    \/ SignOut
    \/ \E txn \in ClientTxns, amount \in PassedAmounts :
           CompleteTransaction(txn, amount)
    \/ \E a \in BagToSet(adds) : AddTransaction(a)

SpecClient == Init /\ [][NextClient]_vars

\* ---- properties --------------------------------------------------------
\* the step receives a /callback delivery
CallbackReceived == received'.cb # received.cb

Terminal == {"COMPLETED", "FAILED"}

\* the handler r leaves the bag by one of the two write steps of /callback
CallbackWrite(r) == CallbackApply(r) \/ CallbackUpdate(r)

\* C1: whatever callbacks are delivered for a transaction id, the balance
\* increment of the record stored under it is committed at most once.
C1_IncrementedOnce == \A id \in TxnIds : credits[id] <= 1

\* C2: a step leaves the status of a transaction record unchanged or moves
\* it from PENDING to COMPLETED or to FAILED; a terminal status never changes.
C2_StatusOnlyLeavesPending ==
    [][\A id \in TxnIds :
         txns[id].exists =>
           \/ txns'[id].status = txns[id].status
           \/ /\ txns[id].status = "PENDING"
              /\ txns'[id].status \in Terminal]_vars

\* C3: in every state the amount of a transaction record has been added to
\* the balance if and only if the record is COMPLETED.
C3_CreditedIffCompleted ==
    \A id \in TxnIds :
        txns[id].exists => (credits[id] > 0 <=> txns[id].status = "COMPLETED")

\* C4: of the handlers that read the same record as PENDING, one performs
\* the apply; a handler whose write arrives when the record is no longer
\* PENDING writes nothing and answers as the ignored case.
C4_LoserWritesNothing ==
    [][\A r \in BagToSet(cbs) :
         (CallbackWrite(r) /\ r.snap.status = "PENDING"
                           /\ txns[r.id].status # "PENDING")
           => (UNCHANGED store /\ out' = Json("ignored"))]_vars

\* the owner and the notification a committed success apply of r must show
AppliedFor(r, owner, amount) ==
    /\ txns'[r.id].status = "COMPLETED"
    /\ users'[owner].balance = users[owner].balance + amount
    /\ \A u \in UserIds \ {owner} : users'[u] = users[u]
    /\ Len(notifs') = Len(notifs) + 1
    /\ SubSeq(notifs', 1, Len(notifs)) = notifs
    /\ notifs'[Len(notifs')].userId = owner

\* C5: a callback with ResultCode = 0 that finds its record PENDING goes on
\* to the apply, and the apply leaves the record COMPLETED, the owner's
\* balance raised by the amount stored in the record, and one new
\* notification owned by that user.
C5_SuccessAlwaysApplies ==
    [][/\ CallbackReceived => \A body \in CallbackBodies :
            (/\ HasStkCallback(body)
             /\ body.ResultCode = 0
             /\ txns[body.CheckoutRequestID].exists
             /\ txns[body.CheckoutRequestID].status = "PENDING"
             /\ CallbackGet(body))
              => \E r \in BagToSet(cbs') :
                    /\ r.pc = "apply"
                    /\ r.id = body.CheckoutRequestID
                    /\ CopiesIn(r, cbs') = CopiesIn(r, cbs) + 1
       /\ \A r \in BagToSet(cbs) :
            (CallbackApply(r) /\ r.snap.status = "PENDING")
              => AppliedFor(r, txns[r.id].userId, txns[r.id].amount)]_vars

\* C6: a callback with a non-zero ResultCode that finds its record PENDING
\* goes on to the update, which sets the record FAILED with the provider's
\* reason as description; neither step changes a user or a notification.
C6_FailureOnlyMarksFailed ==
    [][/\ CallbackReceived => \A body \in CallbackBodies :
            (/\ HasStkCallback(body)
             /\ body.ResultCode # 0
             /\ txns[body.CheckoutRequestID].exists
             /\ txns[body.CheckoutRequestID].status = "PENDING"
             /\ CallbackGet(body))
              => /\ UNCHANGED store
                 /\ \E r \in BagToSet(cbs') :
                       /\ r.pc = "update"
                       /\ r.id = body.CheckoutRequestID
                       /\ r.desc = body.ResultDesc
                       /\ CopiesIn(r, cbs') = CopiesIn(r, cbs) + 1
       /\ \A r \in BagToSet(cbs) :
            (CallbackUpdate(r) /\ r.snap.status = "PENDING")
              => /\ txns'[r.id].status = "FAILED"
                 /\ txns'[r.id].description = FailedDesc(r.desc)
                 /\ \A id \in TxnIds \ {r.id} : txns'[id] = txns[id]
                 /\ UNCHANGED <<users, notifs>>
                 /\ out' = Json("ok")]_vars

\* a failure callback for a PENDING record has just been answered: the
\* record is FAILED with the provider's reason, nothing was credited
C6_Witness ==
    /\ out = Json("ok")
    /\ cbs = EmptyBag
    /\ notifs = <<>>
    /\ \A u \in UserIds : users[u].balance = InitBalance
    /\ \E id \in TxnIds, d \in ResultDescs :
          /\ txns[id].status = "FAILED"
          /\ txns[id].description = FailedDesc(d)

\* C7: a callback that finds its record already COMPLETED or FAILED is
\* answered with the ignored marker at once and changes no record, whatever
\* its result code.
C7_TerminalIgnored ==
    [][CallbackReceived => \A body \in CallbackBodies :
         (/\ HasStkCallback(body)
          /\ txns[body.CheckoutRequestID].exists
          /\ txns[body.CheckoutRequestID].status \in Terminal
          /\ CallbackGet(body))
           => /\ out' = Json("ignored")
              /\ UNCHANGED <<store, cbs>>]_vars

\* C8: a callback whose transaction id has no record is answered 200 with
\* result "ignored", leaves every record unchanged and starts no write.
C8_UnknownIgnored ==
    [][CallbackReceived => \A body \in CallbackBodies :
         (/\ HasStkCallback(body)
          /\ ~txns[body.CheckoutRequestID].exists
          /\ CallbackGet(body))
           => /\ out' = Json("ignored")
              /\ out'.status = 200
              /\ UNCHANGED <<store, cbs>>]_vars

\* a callback has just been answered "ignored" while some id has no record
\* and no callback handler is in flight
C8_Witness ==
    /\ out = Json("ignored")
    /\ received.cb > 0
    /\ cbs = EmptyBag
    /\ \E id \in TxnIds : ~txns[id].exists

\* C9: the write of the pending record is create-if-absent: when a record is
\* already stored under the CheckoutRequestID, it is left as it is and the
\* request is answered with an error instead of the acceptance payload.
C9_CreateIfAbsent ==
    [][\A r \in BagToSet(pushes) :
         (StkPushSet(r) /\ txns[r.cid].exists)
           => /\ UNCHANGED txns
              /\ out'.status # 200]_vars

\* the request amount (in tenths) truncated toward zero
TruncTowardZero(a) ==
    IF a < 0 THEN -((-a) \div AmountScale) ELSE a \div AmountScale

\* C10: whenever /stkPush relays the acceptance payload, the record stored
\* under the returned CheckoutRequestID is a PENDING DEPOSIT with the
\* request's owner id and the truncated amount.
C10_AcceptedIsRecorded ==
    [][\A r \in BagToSet(pushes) :
         (/\ \/ StkPushSet(r)
             \/ \E c \in TxnIds : StkPushAnswer(r, TRUE, c)
          /\ out'.result = "accepted")
           => LET doc == txns'[out'.cid] IN
              /\ doc.exists
              /\ doc.status = "PENDING"
              /\ doc.type = "DEPOSIT"
              /\ doc.userId = r.userId
              /\ doc.amount = TruncTowardZero(r.amount)]_vars

\* C11: a /callback request whose body carries neither envelope is answered
\* with HTTP 400 and neither writes a record nor starts a write of one.
C11_MalformedRejected ==
    [][CallbackReceived => \A body \in CallbackBodies :
         (body.shape = "none" /\ CallbackGet(body))
           => /\ out' = Status(400, "Invalid Body")
              /\ UNCHANGED <<store, cbs, credits>>]_vars

\* a malformed callback has been answered while a PENDING record is stored
C11_Witness ==
    /\ out = Status(400, "Invalid Body")
    /\ received.cb > 0
    /\ \E id \in TxnIds : txns[id].exists /\ txns[id].status = "PENDING"

\* the step receives a POST /stkPush request
StkPushReceived == received'.push # received.push

\* the handler r takes one of its steps after the request was received
StkPushStep(r) ==
    \/ \E o \in {"httpError", "noToken", "token"} : GetAccessToken(r, o)
    \/ \E a \in BOOLEAN, c \in TxnIds : StkPushAnswer(r, a, c)
    \/ StkPushSet(r)

\* C12: a POST /stkPush whose phone number is missing or whose amount is not
\* positive is answered with an error at once: no request goes to the
\* provider, no handler stays in flight and no record is written.
C12_InvalidRejectedLocally ==
    [][StkPushReceived => \A body \in InitiationBodies :
         (/\ ~body.hasPhone \/ body.amount <= 0
          /\ StkPushReceive(body))
           => /\ out'.status \notin {0, 200}
              /\ upstream' = NoCall
              /\ UNCHANGED <<store, pushes>>]_vars

\* the 2547XXXXXXXX form with the trailing digits of the valid number p
ExpectedMsisdn(p) ==
    Msisdn(CHOOSE t \in PhoneTails :
             p \in {<<"+">> \o Msisdn(t), <<"0", "7">> \o t, Msisdn(t)})

\* C13: a phone number in one of the three valid formats is carried by the
\* handler as 2547XXXXXXXX with the same trailing digits, through every step,
\* and that is the PartyA sent to the provider and the phoneNumber stored in
\* the pending record.
C13_PhoneNormalised ==
    [][/\ StkPushReceived => \A body \in InitiationBodies :
            (/\ body.hasPhone
             /\ body.phoneNumber \in ValidPhones
             /\ StkPushReceive(body))
              => \E r \in BagToSet(pushes') :
                   /\ CopiesIn(r, pushes') = CopiesIn(r, pushes) + 1
                   /\ r.formattedPhone = ExpectedMsisdn(body.phoneNumber)
       /\ \A r \in BagToSet(pushes) :
            StkPushStep(r)
              => /\ \A q \in BagToSet(pushes') :
                      CopiesIn(q, pushes') > CopiesIn(q, pushes)
                        => q.formattedPhone = r.formattedPhone
                 /\ upstream'.api = "stkpush"
                      => upstream'.PartyA = r.formattedPhone
                 /\ StkPushSet(r)
                      => txns'[r.cid].phoneNumber = r.formattedPhone]_vars

\* a number with trailing digits 00 has been sent to the provider and stored
C13_Witness ==
    \E id \in TxnIds :
       /\ txns[id].exists
       /\ txns[id].phoneNumber = Msisdn(<<"0", "0">>)

\* C14: the Amount sent to the provider and the amount stored in the pending
\* record are the request amount truncated toward zero, whatever its sign.
C14_AmountTruncated ==
    [][\A r \in BagToSet(pushes) :
         StkPushStep(r)
           => /\ upstream'.api = "stkpush"
                   => upstream'.Amount = TruncTowardZero(r.amount)
              /\ StkPushSet(r)
                   => txns'[r.cid].amount = TruncTowardZero(r.amount)]_vars

\* C15: when the token exchange fails, the handler ends without sending a
\* push; when the provider rejects the push, the handler ends as well; in
\* both cases the caller gets an error payload with status 500 and no
\* collection of the store changes.
C15_UpstreamFailureWritesNothing ==
    [][\A r \in BagToSet(pushes) :
         /\ GetAccessToken(r, "httpError")
              => /\ out' = Status(500, AuthErrorMessage)
                 /\ upstream'.api # "stkpush"
                 /\ pushes' = pushes (-) One(r)
                 /\ UNCHANGED store
         /\ (\E c \in TxnIds : StkPushAnswer(r, FALSE, c))
              => /\ out' = Status(500, ProviderError)
                 /\ pushes' = pushes (-) One(r)
                 /\ UNCHANGED store]_vars

\* a request has ended on the failure of the token exchange, none is in flight
\* and nothing is stored
C15_Witness ==
    /\ out = Status(500, AuthErrorMessage)
    /\ pushes = EmptyBag
    /\ \A id \in TxnIds : ~txns[id].exists

\* C16: no push goes to the provider without a token: a token response that
\* lacks the access_token field counts as a failed exchange.
C16_NoPushWithoutToken ==
    upstream.api = "stkpush" => upstream.token # Undefined

\* the reference the success path must record for the callback body
ExpectedReference(body) ==
    IF body.meta = "receipt" THEN body.receipt ELSE "REF"

\* C17: a ResultCode 0 callback for a PENDING record always starts the
\* atomic apply, with the receipt number it carries or else the placeholder,
\* also when it has no metadata item list; the apply stores that reference.
C17_ReceiptOrPlaceholder ==
    [][/\ CallbackReceived => \A body \in CallbackBodies :
            (/\ HasStkCallback(body)
             /\ body.ResultCode = 0
             /\ txns[body.CheckoutRequestID].exists
             /\ txns[body.CheckoutRequestID].status = "PENDING"
             /\ CallbackGet(body))
              => \E r \in BagToSet(cbs') :
                   /\ CopiesIn(r, cbs') = CopiesIn(r, cbs) + 1
                   /\ r.pc = "apply"
                   /\ r.id = body.CheckoutRequestID
                   /\ r.receipt = ExpectedReference(body)
       /\ \A r \in BagToSet(cbs) :
            (CallbackApply(r) /\ out' = Json("ok"))
              => /\ txns'[r.id].status = "COMPLETED"
                 /\ txns'[r.id].reference = r.receipt]_vars

\* C18: a callback with one of the two envelopes is never answered with an
\* error: each step of its handler that responds sends 200 with the result
\* "ok" or "ignored".
C18_WellFormedAnswered200 ==
    [][/\ CallbackReceived => \A body \in CallbackBodies :
            (HasStkCallback(body) /\ CallbackGet(body))
              => out' \in {NoResp, Json("ok"), Json("ignored")}
       /\ \A r \in BagToSet(cbs) :
            CallbackWrite(r) => out' \in {Json("ok"), Json("ignored")}]_vars

\* the two callbacks delivered so far were applied, one to each of the two
\* records, which belong to the same registered user u
BothApplied(u) ==
    /\ received.cb = Cardinality(TxnIds)
    /\ cbs = EmptyBag
    /\ \A id \in TxnIds :
         /\ txns[id].exists
         /\ txns[id].userId = u
         /\ credits[id] = 1

\* C19: when the success callbacks of two different PENDING transactions of
\* one user have been handled, in whatever interleaving of their reads and
\* applies, both records are COMPLETED, the balance is the initial balance
\* plus both amounts and there are exactly two notifications.
C19_BothCredited ==
    \A u \in RegisteredUsers :
       BothApplied(u)
         => /\ \A id \in TxnIds : txns[id].status = "COMPLETED"
            /\ users[u].balance =
                 InitBalance + txns["ws_CO_1"].amount + txns["ws_CO_2"].amount
            /\ Len(notifs) = Cardinality(TxnIds)
            /\ \A i \in 1..Len(notifs) : notifs[i].userId = u

\* both applies have run and the user holds both amounts
C19_Witness ==
    /\ BothApplied("u1")
    /\ users["u1"].balance > InitBalance + txns["ws_CO_1"].amount

\* C20: in a deployment without a configured base URL no push is sent to the
\* provider and no pending record is written.
C20_UnconfiguredSendsNothing ==
    appUrlEnv = Undefined
      => /\ upstream.api # "stkpush"
         /\ \A id \in TxnIds : ~txns[id].exists

\* C21: once a callback has been delivered for the accepted deposit and no
\* handler is in flight any more, the record of the deposit has a terminal
\* status, whether the callback arrived before or after the record was
\* written.
C21_DeliveredReachesTerminal ==
    (/\ pushes = EmptyBag
     /\ cbs = EmptyBag
     /\ received.cb > 0
     /\ txns[RaceId].exists)
      => txns[RaceId].status \in Terminal

\* C22: a step of /stkPush changes no user balance and no notification, and
\* the only record it writes is the one under the CheckoutRequestID the
\* handler received; a balance changes only in the atomic apply of /callback.
C22_StkPushFrame ==
    [][store' # store =>
         /\ ~StkPushReceived
         /\ \A r \in BagToSet(pushes) :
              StkPushStep(r)
                => /\ UNCHANGED <<users, notifs>>
                   /\ StkPushSet(r)
                   /\ \A id \in TxnIds \ {r.cid} : txns'[id] = txns[id]
         /\ users' # users => \E r \in BagToSet(cbs) : CallbackApply(r)]_vars

\* /stkPush has just written a pending record while the owner holds a
\* balance credited by an earlier callback
C22_Witness ==
    /\ out.result = "accepted"
    /\ txns[out.cid].exists
    /\ txns[out.cid].status = "PENDING"
    /\ users[txns[out.cid].userId].balance > InitBalance

\* C23: when the atomic apply of the success path cannot be committed,
\* because the record of the transaction or of its owner is missing, none
\* of its writes takes effect: records, balances and notifications stay as
\* they are, and the callback is answered with status 500, not with "ok".
C23_FailedApplyWritesNothing ==
    [][\A r \in BagToSet(cbs) :
         (/\ r.pc = "apply"
          /\ ~txns[r.id].exists \/ ~users[r.snap.userId].exists
          /\ CallbackApply(r))
           => /\ UNCHANGED <<store, credits>>
              /\ out' = Status(500, NotFoundMessage)]_vars

\* an apply has failed for a record whose owner is not registered; the
\* record is still PENDING and nothing was credited or notified
C23_Witness ==
    /\ out = Status(500, NotFoundMessage)
    /\ \E id \in TxnIds :
         /\ txns[id].exists
         /\ txns[id].userId \notin RegisteredUsers
         /\ txns[id].status = "PENDING"
    /\ notifs = <<>>
    /\ \A u \in UserIds : users[u].balance = InitBalance

\* the step is a call of completeTransaction
CompleteCalled == completes' # completes

\* what addTransaction adds to the balance for the transaction txn
SignedAmount(txn) == IF txn.type = "DEPOSIT" THEN txn.amount ELSE -txn.amount

====
